---- MODULE Spec2Model ----
(***************************************************************************)
(* The embedding store (VectorDatabase) and the incremental-sync engine     *)
(* (NoteIndexer) of the Gemini Vector Chat plugin, as a state machine.      *)
(*                                                                          *)
(* JavaScript runs one continuation at a time: every action below is the    *)
(* code that runs between two awaits of one async call.  An await of file   *)
(* or network I/O ends an action; the completion order of pending awaits    *)
(* is not fixed by the language, so the actions of different calls          *)
(* interleave freely.                                                       *)
(***************************************************************************)
EXTENDS Integers, Sequences, FiniteSets, TLC

\* ------------------------------------------------------------------ bounds
MaxTime == 2
MaxOps == 2
MaxFaults == 1

\* --------------------------------------------------------------- universe
\* The paths a vault can hold, in getMarkdownFiles() order: one more than a batch.
DocSeq == <<"a.md", "b.md", "c.md", "d.md", "e.md", "f.md">>
DocIds == {DocSeq[i] : i \in 1..Len(DocSeq)}
\* The notes the user edits and the callers of the store name.
Notes == {"a.md", "b.md"}
Calls == {1, 2}                       \* concurrently running async callers

\* ----------------------------------------------------------- VectorEntry
\* The position of path d in the vault.
DocIndex(d) == CHOOSE i \in 1..Len(DocSeq) : DocSeq[i] = d

\* The provider's vector for the processed text of document id: deterministic and
\* never empty.  preprocessContent puts the Title/Path header before the content,
\* so the text, and its vector, are those of this document in this version.
Embed(id, content) == <<content, DocIndex(id)>>

\* content is the version (the modification time) of the text that was read.
VectorEntry(id, content, modified) ==
  [id |-> id, embedding |-> Embed(id, content), content |-> content, modified |-> modified]

\* ---------------------------------------------- Map<string, VectorEntry>
\* A JavaScript Map iterates in insertion order: a sequence with unique ids.
MapIndex(m, id) ==
  IF \E i \in 1..Len(m) : m[i].id = id
  THEN CHOOSE i \in 1..Len(m) : m[i].id = id
  ELSE 0

MapHas(m, id) == MapIndex(m, id) # 0

\* Map.get: the entry, or undefined.
MapGet(m, id) ==
  IF MapHas(m, id) THEN [t |-> "entry", e |-> m[MapIndex(m, id)]] ELSE [t |-> "undefined"]

\* Mutant of MapSet: a replaced entry moves to the end of the iteration order.
MapSetMoves(m, e) == Append(SelectSeq(m, LAMBDA x : x.id # e.id), e)

\* Map.set: replaces in place, or appends.
MapSet(m, e) ==
  IF MapHas(m, e.id) THEN [m EXCEPT ![MapIndex(m, e.id)] = e] ELSE Append(m, e)

\* Map.delete
MapDelete(m, id) == SelectSeq(m, LAMBDA x : x.id # id)

MapKeys(m) == {m[i].id : i \in 1..Len(m)}

\* Mutant of SetAll: the map is replaced by the entries.
ReplaceAll(m, es) == es

\* entries.forEach(entry => this.db.set(entry.id, entry))
RECURSIVE SetAll(_, _)
SetAll(m, es) == IF es = <<>> THEN m ELSE SetAll(MapSet(m, Head(es)), Tail(es))

\* --------------------------------------------------------- durable record
\* What adapter.exists / adapter.read / JSON.parse can find at dbPath.
Absent == [kind |-> "absent"]                  \* no file
Unparsable == [kind |-> "unparsable"]          \* JSON.parse throws
NoVectors == [kind |-> "novectors"]            \* valid JSON without a vectors array
ReadError == [kind |-> "readerror"]            \* adapter.read rejected
Record(vs) == [kind |-> "ok", vectors |-> vs]  \* { version, lastUpdated, vectors }

\* Array.from(this.db.values()) written as the vectors array.
SerializeDb(m) == Record(m)

\* Mutant of Hydrate: the catch block does not replace the map.
HydrateWithoutReset(m, data) ==
  CASE data.kind = "ok" -> SetAll(m, data.vectors)
    [] OTHER -> m

\* The body of loadDatabase after the read: the map it leaves in this.db.
Hydrate(m, data) ==
  CASE data.kind = "ok" -> SetAll(m, data.vectors)
    [] data.kind = "novectors" -> m
    [] OTHER -> <<>>                \* catch: this.db = new Map()

\* A fresh store that loads the record.
LoadFresh(data) == IF data.kind = "absent" THEN <<>> ELSE Hydrate(<<>>, data)

\* ------------------------------------------------------------------ state
VARIABLES
  files,       \* the vault: id -> [live, mtime]
  clock,       \* the time of the last event in the vault
  disk,        \* the durable record at dbPath
  db,          \* VectorDatabase.db
  loaded,      \* VectorDatabase.loaded
  ctor,        \* the loadDatabase() the constructor started and did not await
  isIndexing,  \* NoteIndexer.isIndexing
  op, arg,     \* per caller: the operation it runs and its argument
  pc,          \* per caller: the await it is suspended at
  buf,         \* per caller: data read by its load, or the snapshot of its save
  res,         \* per caller: the value its operation returned
  run,         \* per caller: the locals of its index run
  issued,      \* operations issued so far
  faults,      \* failures injected so far
  lastIndexed, \* observation: the map when indexAllNotes last returned normally
  unflushed,   \* observation: a flush failed and none has succeeded since
  plugin       \* the plugin's data.json, this.settings, the chat view, pending saveData

vars == <<files, clock, disk, db, loaded, ctor, isIndexing, op, arg, pc, buf, res, run, issued, faults, lastIndexed, unflushed, plugin>>

Final == {"idle", "done", "thrown"}
NoValue == [t |-> "none"]
Num(n) == [t |-> "num", n |-> n]
Bool(b) == [t |-> "bool", b |-> b]

\* indexAllNotes / processBatch / generateEmbeddings: const batchSize = 5
batchSize == 5

\* The locals of indexAllNotes / indexModifiedNotes / indexSingleNote and of the
\* processBatch they are in: the files not yet batched, the batch, the index of
\* the file being read, fileData, the embeddings received, entries, indexed; and
\* toDelete.length of removeDeletedNotes.  Two fields record what the run's
\* console.error lines tell: `reads`, the files read successfully so far, and
\* `failed`, the number of embedding requests of the run that failed; `since` is
\* the instant at which indexModifiedNotes computed its modified files.
NoRun ==
  [stage |-> "none", rest |-> <<>>, batch |-> <<>>, j |-> 0, fileData |-> <<>>,
   embeddings |-> <<>>, entries |-> <<>>, indexed |-> 0, deleted |-> 0,
   reads |-> <<>>, failed |-> 0, since |-> 0]

\* this.app.vault.getMarkdownFiles(): the live documents, in vault order.
getMarkdownFiles == SelectSeq(DocSeq, LAMBDA d : files[d].live)

Min(a, b) == IF a < b THEN a ELSE b

Max(a, b) == IF a > b THEN a ELSE b

\* array.slice(from, to), 0-based and end-exclusive as in JavaScript: a negative
\* index counts from the end of the array.
Slice(s, from, to) ==
  SubSeq(s, (IF from < 0 THEN Max(Len(s) + from, 0) ELSE from) + 1,
            IF to < 0 THEN Max(Len(s) + to, 0) ELSE Min(to, Len(s)))

\* -------------------------------------------------- the store's operations
\* Every public method but clear() starts with the gate
\*   if (!this.loaded) await this.loadDatabase();
Gated(o) == o \notin {"clear", "indexSingleNote"}

\* indexAllNotes and indexModifiedNotes take the single-flight flag.
Guarded(o) == o \in {"indexAllNotes", "indexModifiedNotes"}

\* Mutant of ModifiedAmong: the watermark comparison is not strict.
ModifiedOrEqual(fs, m) ==
  SelectSeq(fs, LAMBDA d : ~MapHas(m, d) \/ files[d].mtime >= MapGet(m, d).e.modified)

\* getModifiedNotes: the loop over the live files, given the map m.
ModifiedAmong(fs, m) ==
  SelectSeq(fs, LAMBDA d : ~MapHas(m, d) \/ files[d].mtime > MapGet(m, d).e.modified)

\* Mutant of ToDelete: every id older than its file is deleted with the dead ones.
ToDeleteStale(m) ==
  SelectSeq([i \in 1..Len(m) |-> m[i].id],
            LAMBDA id : ~files[id].live \/ files[id].mtime > MapGet(m, id).e.modified)

\* removeDeletedNotes: the ids to delete, and the map without them.
ToDelete(m) == SelectSeq([i \in 1..Len(m) |-> m[i].id], LAMBDA id : ~files[id].live)

RECURSIVE DeleteAll(_, _)
DeleteAll(m, ids) == IF ids = <<>> THEN m ELSE DeleteAll(MapDelete(m, Head(ids)), Tail(ids))

\* ------------------------------------------------------------------ search
\* The sums of cosineSimilarity's loop.
RECURSIVE Dot(_, _)
Dot(a, b) == IF a = <<>> THEN 0 ELSE Head(a) * Head(b) + Dot(Tail(a), Tail(b))

\* A similarity is kept exact, as the fraction num / den (den > 0) that is the
\* square of the cosine with the cosine's sign: x |-> sign(x) * x^2 is strictly
\* increasing, so the order and the ties of the cosines are those of these values.
Zero == [num |-> 0, den |-> 1]

\* Mutant of cosineSimilarity: the dot product is not divided by the norms.
dotProduct(a, b) ==
  IF Len(a) # Len(b) THEN Zero
  ELSE [num |-> (IF Dot(a, b) < 0 THEN -1 ELSE 1) * Dot(a, b) * Dot(a, b), den |-> 1]

cosineSimilarity(a, b) ==
  IF Len(a) # Len(b) THEN Zero
  ELSE IF Dot(a, a) = 0 \/ Dot(b, b) = 0 THEN Zero
  ELSE [num |-> (IF Dot(a, b) < 0 THEN -1 ELSE 1) * Dot(a, b) * Dot(a, b),
        den |-> Dot(a, a) * Dot(b, b)]

\* x > y on similarities.
Greater(x, y) == x.num * y.den > y.num * x.den

\* results.sort((a, b) => b.similarity - a.similarity): Array.prototype.sort is
\* stable; r lands before the first result whose similarity is smaller.
InsertDesc(rs, r) ==
  LET before == {i \in 1..Len(rs) : \A j \in 1..i : ~Greater(r.similarity, rs[j].similarity)}
      n == Cardinality(before)
  IN SubSeq(rs, 1, n) \o <<r>> \o SubSeq(rs, n + 1, Len(rs))

\* Mutant of SortDesc: the results are left in the order of the map.
Unsorted(rs) == rs

RECURSIVE SortDesc(_)
SortDesc(rs) ==
  IF rs = <<>> THEN <<>>
  ELSE InsertDesc(SortDesc(SubSeq(rs, 1, Len(rs) - 1)), rs[Len(rs)])

\* The loop of search over this.db.values(): one result per entry that has a
\* non-empty embedding.
Scored(m, q) ==
  LET withVector == SelectSeq(m, LAMBDA e : Len(e.embedding) > 0)
  IN [i \in 1..Len(withVector) |->
        [note |-> withVector[i],
         similarity |-> cosineSimilarity(q, withVector[i].embedding)]]

\* search(queryEmbedding, topK) on the loaded map m.
SearchResults(m, q, k) ==
  IF Len(q) = 0 THEN <<>> ELSE Slice(SortDesc(Scored(m, q)), 0, k)

\* needsReindexing: const sampleSize = Math.min(10, files.length)
sampleSize == 10

\* The sequences of files the random sampling of needsReindexing can draw (with
\* replacement) from the live files fs.
Samples(fs) == [1..Min(sampleSize, Len(fs)) -> {fs[i] : i \in 1..Len(fs)}]

\* Mutant of needsReindexing: without the comparison of the two counts.
needsReindexingSampleOnly(m, sample) ==
  \/ Len(m) = 0
  \/ \E i \in 1..Len(sample) :
       \/ ~MapHas(m, sample[i])
       \/ files[sample[i]].mtime > MapGet(m, sample[i]).e.modified

\* needsReindexing() on the loaded map m, when the random draws are `sample`.
needsReindexing(m, sample) ==
  \/ Len(m) = 0
  \/ Len(getMarkdownFiles) # Len(m)
  \/ \E i \in 1..Len(sample) :
       \/ ~MapHas(m, sample[i])
       \/ files[sample[i]].mtime > MapGet(m, sample[i]).e.modified

\* ------------------------------------------------------------ continuations
\* The code of caller c that runs up to its next await, as the values it leaves
\* in db, pc, res, buf and run.  m is the map the code before it left.

\* The call returns v.
Finish(c, m, v) ==
  /\ db' = m
  /\ pc' = [pc EXCEPT ![c] = "done"]
  /\ res' = [res EXCEPT ![c] = v]
  /\ buf' = [buf EXCEPT ![c] = NoValue]
  /\ run' = [run EXCEPT ![c] = NoRun]

\* The call suspends at the await `label`.
Suspend(c, m, label, r) ==
  /\ db' = m
  /\ pc' = [pc EXCEPT ![c] = label]
  /\ res' = [res EXCEPT ![c] = NoValue]
  /\ buf' = [buf EXCEPT ![c] = NoValue]
  /\ run' = [run EXCEPT ![c] = r]

\* Mutant of Throw: every method catches the error, as indexSingleNote does, and
\* returns false.
ThrowCaught(c, o, m) == Finish(c, m, Bool(FALSE))

\* An error leaves the call: indexSingleNote catches it and returns false, the
\* other methods (re)throw it to their caller.
Throw(c, o, m) ==
  IF o = "indexSingleNote"
  THEN Finish(c, m, Bool(FALSE))
  ELSE /\ db' = m
       /\ pc' = [pc EXCEPT ![c] = "thrown"]
       /\ res' = [res EXCEPT ![c] = NoValue]
       /\ buf' = [buf EXCEPT ![c] = NoValue]
       /\ run' = [run EXCEPT ![c] = NoRun]

\* processBatch(fs) starts: the first cachedRead is awaited.
StartBatch(c, m, r, fs) ==
  Suspend(c, m, "read",
          [r EXCEPT !.stage = "batch", !.batch = fs, !.j = 1, !.fileData = <<>>,
                    !.embeddings = <<>>])

\* Mutant of AllLoop: the entries of each batch are set in the map as soon as the
\* batch is done.
AllLoopSetsEachBatch(c, m, r) ==
  IF r.rest # <<>>
  THEN StartBatch(c, SetAll(m, r.entries),
                  [r EXCEPT !.rest = Slice(r.rest, batchSize, Len(r.rest))],
                  Slice(r.rest, 0, batchSize))
  ELSE IF Len(r.entries) > 0
       THEN IF loaded
            THEN Suspend(c, SetAll(m, r.entries), "sv_snap", [r EXCEPT !.stage = "bulk"])
            ELSE Suspend(c, m, "ld_read", [r EXCEPT !.stage = "bulk"])
       ELSE Finish(c, m, Num(r.indexed))

\* indexAllNotes: the loop over the batches, and what follows it.
AllLoop(c, m, r) ==
  IF r.rest # <<>>
  THEN StartBatch(c, m, [r EXCEPT !.rest = Slice(r.rest, batchSize, Len(r.rest))],
                  Slice(r.rest, 0, batchSize))
  ELSE IF Len(r.entries) > 0
       THEN \* addVectors(entries): the gate, the sets, then saveDatabase()
            IF loaded
            THEN Suspend(c, SetAll(m, r.entries), "sv_snap", [r EXCEPT !.stage = "bulk"])
            ELSE Suspend(c, m, "ld_read", [r EXCEPT !.stage = "bulk"])
       ELSE Finish(c, m, Num(r.indexed))

\* indexAllNotes after removeDeletedNotes() returned.
AllEnumerate(c, m, r) ==
  IF Len(getMarkdownFiles) = 0
  THEN Finish(c, m, Num(0))
  ELSE AllLoop(c, m, [r EXCEPT !.rest = getMarkdownFiles])

\* removeDeletedNotes() as called by indexAllNotes.
AllPurge(c, m, r) ==
  IF Len(ToDelete(m)) > 0
  THEN Suspend(c, DeleteAll(m, ToDelete(m)), "sv_snap", [r EXCEPT !.stage = "purge"])
  ELSE AllEnumerate(c, DeleteAll(m, ToDelete(m)), r)

\* indexModifiedNotes after the gate of getModifiedNotes().
ModifiedStart(c, m, r) ==
  IF Len(ModifiedAmong(getMarkdownFiles, m)) = 0
  THEN Finish(c, m, Num(0))
  ELSE StartBatch(c, m, [r EXCEPT !.since = clock], ModifiedAmong(getMarkdownFiles, m))

\* processBatch returned es to its caller o.
BatchDone(c, o, m, r, es) ==
  CASE o = "indexAllNotes" ->
         AllLoop(c, m, [r EXCEPT !.entries = r.entries \o es,
                                 !.indexed = r.indexed + Len(es)])
    [] o = "indexModifiedNotes" ->
         IF Len(es) > 0
         THEN IF loaded
              THEN Suspend(c, SetAll(m, es), "sv_snap",
                           [r EXCEPT !.stage = "bulk", !.entries = es, !.indexed = Len(es)])
              ELSE Suspend(c, m, "ld_read",
                           [r EXCEPT !.stage = "bulk", !.entries = es, !.indexed = Len(es)])
         ELSE Finish(c, m, Num(0))
    [] o = "indexSingleNote" ->
         IF Len(es) > 0
         THEN IF loaded
              THEN Suspend(c, MapSet(m, es[1]), "sv_snap",
                           [r EXCEPT !.stage = "single", !.entries = es])
              ELSE Suspend(c, m, "ld_read", [r EXCEPT !.stage = "single", !.entries = es])
         ELSE Finish(c, m, Bool(FALSE))

\* The synchronous part of method o(a) that follows its gate (for the indexer's
\* methods: the gate of the store method they call), run on the map m.
Body(c, o, a, m) ==
  CASE o = "addVector" -> Suspend(c, MapSet(m, a), "sv_snap", NoRun)
    [] o = "addVectors" -> Suspend(c, SetAll(m, a), "sv_snap", NoRun)
    [] o = "removeVector" -> Suspend(c, MapDelete(m, a), "sv_snap", NoRun)
    [] o = "clear" -> Suspend(c, <<>>, "sv_snap", NoRun)
    [] o = "getVector" -> Finish(c, m, MapGet(m, a))
    [] o = "search" -> Finish(c, m, [t |-> "results", s |-> SearchResults(m, a.q, a.k)])
    [] o = "needsReindexing" ->
         \E sample \in Samples(getMarkdownFiles) :
           Finish(c, m, Bool(needsReindexing(m, sample)))
    [] o = "getModifiedNotes" ->
         Finish(c, m, [t |-> "ids", s |-> ModifiedAmong(getMarkdownFiles, m)])
    [] o = "removeDeletedNotes" ->
         IF Len(ToDelete(m)) > 0
         THEN Suspend(c, DeleteAll(m, ToDelete(m)), "sv_snap",
                      [NoRun EXCEPT !.deleted = Len(ToDelete(m))])
         ELSE Finish(c, DeleteAll(m, ToDelete(m)), Num(0))
    [] o = "indexAllNotes" -> AllPurge(c, m, NoRun)
    [] o = "indexModifiedNotes" -> ModifiedStart(c, m, NoRun)
    [] o = "indexSingleNote" -> StartBatch(c, m, NoRun, <<a>>)

\* The continuation of a load that a gate awaited.
AfterLoad(c, o, a, m) ==
  IF run[c].stage = "bulk" THEN Suspend(c, SetAll(m, run[c].entries), "sv_snap", run[c])
  ELSE IF run[c].stage = "single" THEN Suspend(c, MapSet(m, run[c].entries[1]), "sv_snap", run[c])
  ELSE Body(c, o, a, m)

\* What follows a completed saveDatabase() in the caller.
AfterSave(c, o) ==
  CASE o = "indexAllNotes" /\ run[c].stage = "purge" -> AllEnumerate(c, db, run[c])
    [] o = "indexAllNotes" /\ run[c].stage # "purge" -> Finish(c, db, Num(run[c].indexed))
    [] o = "indexModifiedNotes" -> Finish(c, db, Num(run[c].indexed))
    [] o = "indexSingleNote" -> Finish(c, db, Bool(TRUE))
    [] o = "removeDeletedNotes" -> Finish(c, db, Num(run[c].deleted))
    [] OTHER -> Finish(c, db, NoValue)

\* Mutant of Flag: the flag is reset at the end of the try block, not in a
\* finally: a call that throws keeps it.
FlagWithoutFinally(c, o, acquire) ==
  isIndexing' = IF Guarded(o) /\ pc'[c] = "done" THEN FALSE ELSE (acquire \/ isIndexing)

\* finally { this.isIndexing = false }: runs when a guarded call ends; `acquire`
\* is the `this.isIndexing = true` of the call being issued.
Flag(c, o, acquire) ==
  isIndexing' = IF Guarded(o) /\ pc'[c] \in Final THEN FALSE ELSE (acquire \/ isIndexing)

\* What the step of caller c leaves in the flag and in the observation.
Ends(c, o, acquire) ==
  /\ Flag(c, o, acquire)
  /\ lastIndexed' = IF o = "indexAllNotes" /\ pc'[c] = "done"
                    THEN [t |-> "map", m |-> db']
                    ELSE lastIndexed

\* ------------------------------------------------------------ loadDatabase
\* The constructor calls this.loadDatabase() without awaiting it: the load runs
\* in the background.  Its first step is adapter.exists followed, if the file is
\* there, by adapter.read, which takes the file's content as it is then (or
\* rejects); an absent file ends the load at once.
CtorRead ==
  /\ ctor.pc = "ld_read"
  /\ \/ /\ disk.kind = "absent"
        /\ ctor' = [pc |-> "done", buf |-> NoValue]
        /\ loaded' = TRUE
        /\ UNCHANGED faults
     \/ /\ disk.kind # "absent"
        /\ ctor' = [pc |-> "ld_apply", buf |-> disk]
        /\ UNCHANGED <<loaded, faults>>
     \/ /\ disk.kind # "absent"
        /\ faults < MaxFaults
        /\ faults' = faults + 1
        /\ ctor' = [pc |-> "ld_apply", buf |-> ReadError]
        /\ UNCHANGED loaded
  /\ UNCHANGED <<files, clock, disk, db, isIndexing, op, arg, pc, buf, res, run, issued, lastIndexed, unflushed, plugin>>

\* The continuation of the read parses the text into this.db, later.
CtorApply ==
  /\ ctor.pc = "ld_apply"
  /\ db' = Hydrate(db, ctor.buf)
  /\ loaded' = TRUE
  /\ ctor' = [pc |-> "done", buf |-> NoValue]
  /\ UNCHANGED <<files, clock, disk, isIndexing, op, arg, pc, buf, res, run, issued, faults, lastIndexed, unflushed, plugin>>

\* The same steps for the loadDatabase() a gate awaits; the caller's method body
\* runs in the continuation of the load.
LoadRead(c) ==
  /\ pc[c] = "ld_read"
  /\ \/ /\ disk.kind = "absent"
        /\ loaded' = TRUE
        /\ AfterLoad(c, op[c], arg[c], db)
        /\ UNCHANGED faults
     \/ /\ disk.kind # "absent"
        /\ pc' = [pc EXCEPT ![c] = "ld_apply"]
        /\ buf' = [buf EXCEPT ![c] = disk]
        /\ UNCHANGED <<loaded, db, res, run, faults>>
     \/ /\ disk.kind # "absent"
        /\ faults < MaxFaults
        /\ faults' = faults + 1
        /\ pc' = [pc EXCEPT ![c] = "ld_apply"]
        /\ buf' = [buf EXCEPT ![c] = ReadError]
        /\ UNCHANGED <<loaded, db, res, run>>
  /\ Ends(c, op[c], FALSE)
  /\ UNCHANGED <<files, clock, disk, ctor, op, arg, issued, unflushed, plugin>>

LoadApply(c) ==
  /\ pc[c] = "ld_apply"
  /\ loaded' = TRUE
  /\ AfterLoad(c, op[c], arg[c], Hydrate(db, buf[c]))
  /\ Ends(c, op[c], FALSE)
  /\ UNCHANGED <<files, clock, disk, ctor, op, arg, issued, faults, unflushed, plugin>>

\* ------------------------------------------------------------ saveDatabase
\* `await adapter.exists(dir)` returns; the snapshot of the map is taken and
\* adapter.write is started.
SaveSnap(c) ==
  /\ pc[c] = "sv_snap"
  /\ buf' = [buf EXCEPT ![c] = SerializeDb(db)]
  /\ pc' = [pc EXCEPT ![c] = "sv_write"]
  /\ UNCHANGED <<files, clock, disk, db, loaded, ctor, isIndexing, op, arg, res, run, issued, faults, lastIndexed, unflushed, plugin>>

\* adapter.write lands and saveDatabase returns to its caller.
SaveWrite(c) ==
  /\ pc[c] = "sv_write"
  /\ disk' = buf[c]
  /\ AfterSave(c, op[c])
  /\ Ends(c, op[c], FALSE)
  /\ unflushed' = FALSE
  /\ UNCHANGED <<files, clock, loaded, ctor, op, arg, issued, faults, plugin>>

\* adapter.exists, mkdir or write rejects: saveDatabase logs and rethrows.
SaveFail(c) ==
  /\ pc[c] \in {"sv_snap", "sv_write"}
  /\ faults < MaxFaults
  /\ faults' = faults + 1
  /\ Throw(c, op[c], db)
  /\ Ends(c, op[c], FALSE)
  /\ unflushed' = TRUE
  /\ UNCHANGED <<files, clock, disk, loaded, ctor, op, arg, issued, plugin>>

\* ------------------------------------------------------------ processBatch
\* Mutant of ReadFile: the read is not in a try block of its own, so a failed
\* read ends the run with the error.
ReadFileAborts(c) ==
  /\ pc[c] = "read"
  /\ LET r == run[c]
         d == r.batch[r.j]
     IN \E ok \in BOOLEAN :
          /\ ok => files[d].live
          /\ ~ok => (~files[d].live \/ faults < MaxFaults)
          /\ faults' = IF ~ok /\ files[d].live THEN faults + 1 ELSE faults
          /\ LET fd == Append(r.fileData, [id |-> d, content |-> files[d].mtime])
                 r2 == [r EXCEPT !.fileData = fd, !.reads = Append(r.reads, d)]
             IN IF ~ok THEN Throw(c, op[c], db)
                ELSE IF r.j < Len(r.batch) THEN Suspend(c, db, "read", [r2 EXCEPT !.j = r.j + 1])
                ELSE Suspend(c, db, "embed", r2)
  /\ Ends(c, op[c], FALSE)
  /\ UNCHANGED <<files, clock, disk, loaded, ctor, op, arg, issued, unflushed, plugin>>

\* `await this.app.vault.cachedRead(file)` of the file at index j returns the
\* current text, or rejects (always, once the file is deleted).  preprocessContent
\* prepends the Title/Path header, so the processed text is never blank.
ReadFile(c) ==
  /\ pc[c] = "read"
  /\ LET r == run[c]
         d == r.batch[r.j]
     IN \E ok \in BOOLEAN :
          /\ ok => files[d].live
          /\ ~ok => (~files[d].live \/ faults < MaxFaults)
          /\ faults' = IF ~ok /\ files[d].live THEN faults + 1 ELSE faults
          /\ LET fd == IF ok THEN Append(r.fileData, [id |-> d, content |-> files[d].mtime])
                       ELSE r.fileData
                 r2 == [r EXCEPT !.fileData = fd,
                                 !.reads = IF ok THEN Append(r.reads, d) ELSE r.reads]
             IN IF r.j < Len(r.batch) THEN Suspend(c, db, "read", [r2 EXCEPT !.j = r.j + 1])
                ELSE IF fd = <<>> THEN BatchDone(c, op[c], db, r2, <<>>)
                ELSE Suspend(c, db, "embed", r2)
  /\ Ends(c, op[c], FALSE)
  /\ UNCHANGED <<files, clock, disk, loaded, ctor, op, arg, issued, unflushed, plugin>>

\* Mutant of BuildEntries: the entry is stamped with the time of indexing, not
\* with the modification time of the file.
BuildEntriesStampedNow(fd, embs) ==
  SelectSeq([i \in 1..Len(fd) |->
               [id |-> fd[i].id, embedding |-> embs[i], content |-> fd[i].content,
                modified |-> clock + 1]],
            LAMBDA e : Len(e.embedding) > 0)

\* Mutant of BuildEntries: the placeholders are dropped before the vectors are
\* paired with the files.
BuildEntriesCompacted(fd, embs) ==
  LET vs == SelectSeq(embs, LAMBDA v : Len(v) > 0)
  IN [i \in 1..Len(vs) |->
        [id |-> fd[i].id, embedding |-> vs[i], content |-> fd[i].content,
         modified |-> files[fd[i].id].mtime]]

\* Mutant of BuildEntries: an entry is built for every file that was read,
\* whatever its embedding.
BuildEntriesUnfiltered(fd, embs) ==
  [i \in 1..Len(fd) |->
     [id |-> fd[i].id, embedding |-> embs[i], content |-> fd[i].content,
      modified |-> files[fd[i].id].mtime]]

\* The entries processBatch builds once every embedding is there: one per file
\* with a non-empty embedding, stamped with file.stat.mtime as it is now.
BuildEntries(fd, embs) ==
  SelectSeq([i \in 1..Len(fd) |->
               [id |-> fd[i].id, embedding |-> embs[i], content |-> fd[i].content,
                modified |-> files[fd[i].id].mtime]],
            LAMBDA e : Len(e.embedding) > 0)

\* Mutant of EmbedStep: neither generateEmbeddings nor processBatch catches the
\* error of a failed request, which ends the run.
EmbedStepAborts(c) ==
  /\ pc[c] = "embed"
  /\ LET r == run[c]
         k == Len(r.embeddings)
         sub == Slice(r.fileData, k, k + batchSize)
     IN \E ok \in BOOLEAN :
          /\ ~ok => faults < MaxFaults
          /\ faults' = IF ok THEN faults ELSE faults + 1
          /\ LET embs == r.embeddings \o [i \in 1..Len(sub) |-> Embed(sub[i].id, sub[i].content)]
                 r2 == [r EXCEPT !.embeddings = embs]
             IN IF ~ok THEN Throw(c, op[c], db)
                ELSE IF Len(embs) < Len(r.fileData) THEN Suspend(c, db, "embed", r2)
                ELSE BatchDone(c, op[c], db, r2, BuildEntries(r.fileData, embs))
  /\ Ends(c, op[c], FALSE)
  /\ UNCHANGED <<files, clock, disk, loaded, ctor, op, arg, issued, unflushed, plugin>>

\* generateEmbeddings: the Promise.all of the next batchSize texts settles; if
\* any request failed every text of that group gets the placeholder [].
EmbedStep(c) ==
  /\ pc[c] = "embed"
  /\ LET r == run[c]
         k == Len(r.embeddings)
         sub == Slice(r.fileData, k, k + batchSize)
     IN \E ok \in BOOLEAN :
          /\ ~ok => faults < MaxFaults
          /\ faults' = IF ok THEN faults ELSE faults + 1
          /\ LET embs == r.embeddings \o
                           [i \in 1..Len(sub) |-> IF ok THEN Embed(sub[i].id, sub[i].content) ELSE <<>>]
                 r2 == [r EXCEPT !.embeddings = embs,
                                 !.failed = IF ok THEN r.failed ELSE r.failed + 1]
             IN IF Len(embs) < Len(r.fileData) THEN Suspend(c, db, "embed", r2)
                ELSE BatchDone(c, op[c], db, r2, BuildEntries(r.fileData, embs))
  /\ Ends(c, op[c], FALSE)
  /\ UNCHANGED <<files, clock, disk, loaded, ctor, op, arg, issued, unflushed, plugin>>

\* ------------------------------------------------------------- the callers
\* Callers are anonymous: a call takes the first caller that is not in a call.
Free(c) == pc[c] \in Final /\ \A c2 \in Calls : c2 < c => pc[c2] \notin Final

\* A caller invokes method o(a).  The gate is evaluated in the call itself: on a
\* loaded store the body runs at once, otherwise loadDatabase() is started.
Issue(c, o, a) ==
  /\ Free(c)
  /\ issued < MaxOps
  /\ ~(Guarded(o) /\ isIndexing)
  /\ issued' = issued + 1
  /\ op' = [op EXCEPT ![c] = o]
  /\ arg' = [arg EXCEPT ![c] = a]
  /\ IF Gated(o) /\ ~loaded THEN Suspend(c, db, "ld_read", NoRun) ELSE Body(c, o, a, db)
  /\ Ends(c, o, Guarded(o))
  /\ UNCHANGED <<files, clock, disk, loaded, ctor, faults, unflushed, plugin>>

\* Mutant of Reject: the guard sits inside the try block, so the finally of the
\* rejected call resets the flag of the run in flight.
RejectReleases(c, o) ==
  /\ Free(c)
  /\ issued < MaxOps
  /\ Guarded(o) /\ isIndexing
  /\ issued' = issued + 1
  /\ op' = [op EXCEPT ![c] = o]
  /\ arg' = [arg EXCEPT ![c] = NoValue]
  /\ Finish(c, db, Num(0))
  /\ isIndexing' = FALSE
  /\ UNCHANGED <<files, clock, disk, loaded, ctor, faults, lastIndexed, unflushed, plugin>>

\* if (this.isIndexing) return 0;
Reject(c, o) ==
  /\ Free(c)
  /\ issued < MaxOps
  /\ Guarded(o) /\ isIndexing
  /\ issued' = issued + 1
  /\ op' = [op EXCEPT ![c] = o]
  /\ arg' = [arg EXCEPT ![c] = NoValue]
  /\ Finish(c, db, Num(0))
  /\ UNCHANGED <<files, clock, disk, loaded, ctor, isIndexing, faults, lastIndexed, unflushed, plugin>>

ClientEntries == {VectorEntry(d, t, t) : d \in Notes, t \in 1..MaxTime}
ClientBatches ==
  {<<e1, e2>> : e1 \in {e \in ClientEntries : e.modified = 1}, e2 \in ClientEntries}

addVector(c) == \E e \in ClientEntries : Issue(c, "addVector", e)
addVectors(c) == \E es \in ClientBatches : Issue(c, "addVectors", es)
removeVector(c) == \E id \in Notes : Issue(c, "removeVector", id)
getVector(c) == \E id \in Notes : Issue(c, "getVector", id)
clear(c) == Issue(c, "clear", NoValue)

\* The query vectors and the topK values of the callers of search.
Queries == {<<>>, <<1, 0>>, <<1>>, <<0, 0>>, <<1, 1>>}
TopKs == -1..4
search(c) == \E q \in Queries : \E k \in TopKs : Issue(c, "search", [q |-> q, k |-> k])
needsReindexingCall(c) == Issue(c, "needsReindexing", NoValue)
getModifiedNotes(c) == Issue(c, "getModifiedNotes", NoValue)
removeDeletedNotes(c) == Issue(c, "removeDeletedNotes", NoValue)

indexAllNotes(c) == Issue(c, "indexAllNotes", NoValue)
indexModifiedNotes(c) == Issue(c, "indexModifiedNotes", NoValue)
Rejected(c) == Reject(c, "indexAllNotes") \/ Reject(c, "indexModifiedNotes")
indexSingleNote(c) == \E d \in Notes : files[d].live /\ Issue(c, "indexSingleNote", d)

\* ---------------------------------------------------------------- the vault
\* The user creates, edits and deletes notes at any time.  Each event happens at
\* the next instant of the clock, which stamps the note's modification time.
CreateNote(d) ==
  /\ ~files[d].live /\ files[d].mtime = 0
  /\ clock < MaxTime
  /\ clock' = clock + 1
  /\ files' = [files EXCEPT ![d] = [live |-> TRUE, mtime |-> clock + 1]]
  /\ UNCHANGED <<disk, db, loaded, ctor, isIndexing, op, arg, pc, buf, res, run, issued, faults, lastIndexed, unflushed, plugin>>

ModifyNote(d) ==
  /\ files[d].live
  /\ clock < MaxTime
  /\ clock' = clock + 1
  /\ files' = [files EXCEPT ![d].mtime = clock + 1]
  /\ UNCHANGED <<disk, db, loaded, ctor, isIndexing, op, arg, pc, buf, res, run, issued, faults, lastIndexed, unflushed, plugin>>

DeleteNote(d) ==
  /\ files[d].live
  /\ clock < MaxTime
  /\ clock' = clock + 1
  /\ files' = [files EXCEPT ![d].live = FALSE]
  /\ UNCHANGED <<disk, db, loaded, ctor, isIndexing, op, arg, pc, buf, res, run, issued, faults, lastIndexed, unflushed, plugin>>

Vault == \E d \in Notes : CreateNote(d) \/ ModifyNote(d) \/ DeleteNote(d)

\* ------------------------------------------------ the plugin's data record
\* data.json as loadData() and saveData() see it: an object with the keys of the
\* settings (one value stands for geminiApiKey, model, topK, autoIndex ...) and
\* the key chatHistory.  NoValue is a key that the object does not have.
Data(s, h) == [settings |-> s, chatHistory |-> h]
History(ms) == [t |-> "history", messages |-> ms]

\* const DEFAULT_SETTINGS = { ..., topK: 5, ... }
DEFAULT_SETTINGS == Num(5)
\* The values the settings tab can set.
SettingValues == {Num(5), Num(3)}

\* Object.assign({}, DEFAULT_SETTINGS, await this.loadData()): every key of the
\* file is copied onto the defaults, the key chatHistory included.
loadSettings(d) ==
  Data(IF d.settings = NoValue THEN DEFAULT_SETTINGS ELSE d.settings, d.chatHistory)

\* The plugin after onload() on the data file d; the chat view is not open yet.
onload(d) ==
  [data |-> d, settings |-> loadSettings(d), view |-> FALSE, messages |-> <<>>,
   writes |-> {}, ops |-> 0]

\* saveData(o) is called: the object is serialised and the write is started.
saveData(pl, kind, o) == [pl EXCEPT !.writes = @ \cup {[kind |-> kind, data |-> o]},
                                   !.ops = @ + 1]

\* The other components do not touch the plugin's data.
StoreIdle ==
  UNCHANGED <<files, clock, disk, db, loaded, ctor, isIndexing, op, arg, pc, buf, res, run,
              issued, faults, lastIndexed, unflushed>>

\* ChatView.onOpen -> loadChatHistory(): the stored messages, if any, become the
\* messages of the view.
loadChatHistory ==
  /\ ~plugin.view
  /\ plugin' = [plugin EXCEPT !.view = TRUE,
                              !.messages = IF plugin.data.chatHistory = NoValue THEN @
                                           ELSE plugin.data.chatHistory.messages]
  /\ StoreIdle

\* saveChatHistory(): await this.plugin.saveData({ chatHistory: data })
saveChatHistory(pl) == saveData(pl, "chat", Data(NoValue, History(pl.messages)))

\* saveSettings(): await this.saveData(this.settings)
saveSettings(pl) == saveData(pl, "settings", pl.settings)

\* sendMessage: the question and the answer are added to the messages (numbered
\* here by their place), then saveChatHistory() is called.
sendMessage ==
  /\ plugin.view /\ plugin.ops < MaxOps
  /\ plugin' = saveChatHistory([plugin EXCEPT !.messages = Append(@, Len(@) + 1)])
  /\ StoreIdle

clearChat ==
  /\ plugin.view /\ plugin.ops < MaxOps
  /\ plugin' = saveChatHistory([plugin EXCEPT !.messages = <<>>])
  /\ StoreIdle

\* The settings tab: onChange sets the value in this.plugin.settings and calls
\* saveSettings().
onChange ==
  /\ plugin.ops < MaxOps
  /\ \E v \in SettingValues :
       plugin' = saveSettings([plugin EXCEPT !.settings.settings = v])
  /\ StoreIdle

\* The write of a saveData lands: the file is what that call serialised.  Writes
\* that are pending together land in either order.
WriteLands ==
  /\ \E w \in plugin.writes :
       plugin' = [plugin EXCEPT !.data = w.data, !.writes = @ \ {w}]
  /\ StoreIdle

\* ------------------------------------------------------------ specifications
NoFile == [live |-> FALSE, mtime |-> 0]
LiveFile(t) == [live |-> TRUE, mtime |-> t]

\* What an earlier session can have left at dbPath.
InitDisks ==
  {Absent, Unparsable, NoVectors,
   Record(<<VectorEntry("a.md", 1, 1)>>),
   Record(<<VectorEntry("a.md", 1, 1), VectorEntry("b.md", 1, 1)>>)}

\* After construction: nothing in memory, the constructor's load pending.
Constructed ==
  /\ db = <<>>
  /\ loaded = FALSE
  /\ ctor = [pc |-> "ld_read", buf |-> NoValue]
  /\ isIndexing = FALSE
  /\ op = [c \in Calls |-> "none"]
  /\ arg = [c \in Calls |-> NoValue]
  /\ pc = [c \in Calls |-> "idle"]
  /\ buf = [c \in Calls |-> NoValue]
  /\ res = [c \in Calls |-> NoValue]
  /\ run = [c \in Calls |-> NoRun]
  /\ clock = 1
  /\ issued = 0
  /\ faults = 0
  /\ lastIndexed = NoValue
  /\ unflushed = FALSE

\* The plugin has just loaded, and no data file was there.
FirstStart == plugin = onload(Data(NoValue, NoValue))

Background == CtorRead \/ CtorApply

\* The awaits of the store, and those of processBatch.
Progress(c) ==
  LoadRead(c) \/ LoadApply(c) \/ SaveSnap(c) \/ SaveWrite(c) \/ SaveFail(c)

Pipeline(c) == ReadFile(c) \/ EmbedStep(c)

\* The plugin: the indexer's methods called by concurrent callers (commands,
\* the startup auto-index, file events) while the user edits the vault.
Init ==
  /\ files \in {f \in [DocIds -> {NoFile, LiveFile(1)}] :
                  f["a.md"].live /\ \A d \in DocIds \ Notes : f[d] = NoFile}
  /\ disk \in {Absent, Record(<<VectorEntry("a.md", 1, 1), VectorEntry("b.md", 1, 1)>>)}
  /\ Constructed
  /\ FirstStart

IndexCall(c) == indexAllNotes(c) \/ indexModifiedNotes(c) \/ indexSingleNote(c)


Next ==
  Background \/ \E c \in Calls : IndexCall(c) \/ Rejected(c) \/ Progress(c) \/ Pipeline(c)

Spec == Init /\ [][Next]_vars

SyncNext == Background \/ Vault \/ IndexCall(1) \/ Progress(1) \/ Pipeline(1)

SyncSpec == Init /\ [][SyncNext]_vars

\* The store used directly by one caller that awaits each call, next to the
\* constructor's load, over a vault that does not change meanwhile.
StoreInit ==
  /\ files \in {f \in [DocIds -> {NoFile} \cup {LiveFile(t) : t \in 1..MaxTime}] :
                  f["b.md"].mtime <= 1 /\ \A d \in DocIds \ Notes : f[d] = NoFile}
  /\ disk \in InitDisks
  /\ Constructed
  /\ FirstStart

StoreCall(c) ==
  \/ addVector(c) \/ addVectors(c) \/ removeVector(c) \/ getVector(c)
  \/ clear(c) \/ getModifiedNotes(c) \/ removeDeletedNotes(c)

StoreNext == Background \/ StoreCall(1) \/ Progress(1)

StoreSpec == StoreInit /\ [][StoreNext]_vars

\* The startup check of the plugin: needsReindexing() on a store that one caller
\* also adds entries to and removes entries from.
ReindexCall(c) == needsReindexingCall(c) \/ addVector(c) \/ removeVector(c)

ReindexNext == Background \/ ReindexCall(1) \/ Progress(1)

ReindexSpec == StoreInit /\ [][ReindexNext]_vars

\* Searches of a store between upserts and removals by the same caller.
RankCall(c) == search(c) \/ addVector(c) \/ removeVector(c)

RankNext == Background \/ RankCall(1) \/ Progress(1)

RankSpec == StoreInit /\ [][RankNext]_vars

\* Searching a store that an earlier session left: up to three entries, whose
\* embeddings may be empty, zero, parallel to each other, or of different
\* directions.
StoredVectors == {<<>>, <<1, 0>>, <<2, 0>>, <<1, 1>>, <<0, 0>>}
StoredIds == <<"a.md", "b.md", "c.md">>
SearchDisks ==
  {Record([i \in 1..n |->
             [id |-> StoredIds[i], embedding |-> v[i], content |-> 1, modified |-> 1]]) :
     n \in 0..3, v \in [1..3 -> StoredVectors]}

SearchInit ==
  /\ files = [d \in DocIds |-> NoFile]
  /\ disk \in SearchDisks
  /\ Constructed
  /\ FirstStart

SearchNext == Background \/ search(1) \/ LoadRead(1) \/ LoadApply(1)

SearchSpec == SearchInit /\ [][SearchNext]_vars

\* One caller indexing a vault of five or six notes: one batch, or two.
BatchInit ==
  /\ files \in {[d \in DocIds |-> IF d \in hidden THEN NoFile ELSE LiveFile(1)] :
                  hidden \in {{}, {"f.md"}}}
  /\ disk \in {Absent, Record(<<VectorEntry("a.md", 1, 1)>>)}
  /\ Constructed
  /\ FirstStart

BatchNext == Background \/ IndexCall(1) \/ Progress(1) \/ Pipeline(1)

BatchSpec == BatchInit /\ [][BatchNext]_vars

\* One caller that uses both the store's mutations and the index runs.
FlushCall(c) ==
  \/ addVector(c) \/ addVectors(c) \/ removeVector(c) \/ clear(c)
  \/ indexAllNotes(c) \/ indexModifiedNotes(c)

FlushNext == Background \/ FlushCall(1) \/ Progress(1) \/ Pipeline(1)

FlushSpec == Init /\ [][FlushNext]_vars

\* The chat view and the settings tab saving the plugin's data, on a data file
\* that an earlier session left with or without settings and chat history.
DataFiles ==
  {Data(s, h) : s \in {NoValue, Num(3)},
                h \in {NoValue, History(<<>>), History(<<1>>)}}

DataInit ==
  /\ files = [d \in DocIds |-> NoFile]
  /\ disk = Absent
  /\ Constructed
  /\ plugin \in {onload(d) : d \in DataFiles}

DataNext == loadChatHistory \/ sendMessage \/ clearChat \/ onChange \/ WriteLands

DataSpec == DataInit /\ [][DataNext]_vars

\* The same callers, under the scheduling the event loop gives them: a pending
\* await of a call is eventually resumed.
FairSpec == Spec /\ \A c \in Calls : WF_vars(Progress(c) \/ Pipeline(c))

\* ------------------------------------------------------------------- claims
IndexRequests == {"indexAllNotes", "indexModifiedNotes"}

\* Caller c is in an indexAllNotes / indexModifiedNotes run that took the flag.
InFlight(c) == op[c] \in IndexRequests /\ pc[c] \notin Final

\* This step is caller c calling indexAllNotes() or indexModifiedNotes().
Requests(c) == issued' = issued + 1 /\ Free(c) /\ op'[c] \in IndexRequests

\* C1: an indexAll()/indexModified() request issued while another such run is in
\* progress returns 0 at once, without throwing or queueing, leaves the store (map
\* and durable record) and the run in flight as they are, and leaves the indexer
\* Indexing.
C1_SingleFlightRejection ==
  [][\A c \in Calls :
       (Requests(c) /\ \E c2 \in Calls \ {c} : InFlight(c2)) =>
         /\ pc'[c] = "done" /\ res'[c] = Num(0)
         /\ db' = db /\ disk' = disk
         /\ \A c2 \in Calls \ {c} : pc'[c2] = pc[c2] /\ run'[c2] = run[c2]
         /\ isIndexing /\ isIndexing']_vars

\* A request was rejected while the run of another caller is still in flight.
C1_Witness ==
  \E c \in Calls : \E c2 \in Calls \ {c} :
    /\ InFlight(c2)
    /\ op[c] = "indexAllNotes" /\ pc[c] = "done" /\ res[c] = Num(0)

\* Caller c is inside the batch pipeline: reading documents, requesting
\* embeddings, or writing the entries it built.
InPipeline(c) ==
  /\ op[c] \in IndexRequests \cup {"indexSingleNote"}
  /\ pc[c] \notin Final
  /\ run[c].stage \in {"batch", "bulk", "single"}

\* C2: at most one invocation among indexAll(), indexModified() and indexOne() is
\* inside the batch pipeline at any time.
C2_OneRunInFlight == Cardinality({c \in Calls : InPipeline(c)}) <= 1

\* C3: an indexAll()/indexModified() invocation that took the flag releases it in
\* the step it ends in, by return or by throw, and a flag that is taken is
\* eventually released: the indexer is Idle again.
C3_FlagReleased ==
  /\ [][\A c \in Calls : (InFlight(c) /\ pc'[c] \in Final) => ~isIndexing']_vars
  /\ isIndexing ~> ~isIndexing

\* A run ended by the error of a failed flush, and the flag is released.
C3_Witness ==
  \E c \in Calls : op[c] \in IndexRequests /\ pc[c] = "thrown" /\ ~isIndexing

\* The id -> entry mapping a map holds.
Mapping(m) == {m[i] : i \in 1..Len(m)}

Mutations == {"addVector", "addVectors", "removeVector", "clear", "removeDeletedNotes"}

\* This step is the hydration of the map by a load: of the constructor's, or of
\* the one a gate awaits.
CtorHydrates == ctor.pc = "ld_apply" /\ ctor'.pc = "done"
GateHydrates(c) == pc[c] = "ld_apply" /\ pc'[c] # "ld_apply"

\* C4: store operations are serialized with the lazy load: the durable record is
\* hydrated into memory at most once, and a load that completes after a mutation
\* has returned leaves the in-memory map as it is.
C4_LoadSerialized ==
  /\ [][\A c \in Calls : (CtorHydrates \/ GateHydrates(c)) => ~loaded]_vars
  /\ [][\A c \in Calls :
         (CtorHydrates /\ op[c] \in Mutations \ {"clear"} /\ pc[c] = "done") =>
           db' = db]_vars

\* This step is caller c calling getVector(id) on a loaded store, right after its
\* call of method o returned.
GetsAfter(c, o, id) ==
  /\ op[c] = o /\ pc[c] = "done"
  /\ issued' = issued + 1
  /\ op'[c] = "getVector" /\ arg'[c] = id /\ pc'[c] = "done"

\* C5: getVector(E.id) issued after addVector(E), or after an addVectors whose
\* last entry with that id is E, has returned yields E, and the map holds exactly
\* one entry for E.id.
C5_UpsertGetRoundTrip ==
  [][\A c \in Calls :
       /\ GetsAfter(c, "addVector", arg[c].id) =>
            /\ res'[c] = [t |-> "entry", e |-> arg[c]]
            /\ Cardinality({i \in 1..Len(db') : db'[i].id = arg[c].id}) = 1
       /\ \A k \in 1..2 :
            (/\ op[c] = "addVectors"
             /\ \A j \in 1..2 : j > k => arg[c][j].id # arg[c][k].id
             /\ GetsAfter(c, "addVectors", arg[c][k].id)) =>
              /\ res'[c] = [t |-> "entry", e |-> arg[c][k]]
              /\ Cardinality({i \in 1..Len(db') : db'[i].id = arg[c][k].id}) = 1]_vars

\* C6: when addVector, addVectors, removeVector, clear or a removeDeletedNotes that
\* removed something returns successfully, loading the durable record into a
\* fresh store yields the id -> entry mapping of the in-memory map.
C6_DurableConsistency ==
  [][\A c \in Calls :
       (op[c] \in Mutations /\ pc[c] = "sv_write" /\ pc'[c] = "done") =>
         Mapping(LoadFresh(disk')) = Mapping(db')]_vars

\* The map the body of the gated method of caller c runs on in this step: the
\* map as the gate of the method leaves it.
AfterGate(c) == IF pc[c] = "ld_apply" THEN Hydrate(db, buf[c]) ELSE db

\* This step runs the body of method o for caller c: in the call itself on a
\* loaded store, otherwise when the load of its gate completes.
RunsBody(c, o) ==
  /\ op'[c] = o
  /\ \/ pc[c] \in Final /\ issued' = issued + 1 /\ pc'[c] # "ld_read"
     \/ pc[c] = "ld_read" /\ pc'[c] \notin {"ld_read", "ld_apply"}
     \/ pc[c] = "ld_apply" /\ pc'[c] # "ld_apply"

\* The stored ids of map m that are not ids of live documents.
DeadIds(m) == {e.id : e \in {x \in Mapping(m) : ~files[x.id].live}}

\* C7: removeDeletedNotes() removes exactly the stored ids that are not live,
\* leaves every other entry unchanged and returns the number of ids removed; when
\* no stored id is dead it returns 0 at once and writes nothing.  No other step of
\* the call changes the map.
C7_PurgeExact ==
  [][\A c \in Calls :
       /\ RunsBody(c, "removeDeletedNotes") =>
            /\ Mapping(db') = {e \in Mapping(AfterGate(c)) : files[e.id].live}
            /\ Len(db') = Cardinality(Mapping(db'))
            /\ IF DeadIds(AfterGate(c)) = {}
               THEN pc'[c] = "done" /\ res'[c] = Num(0) /\ disk' = disk
               ELSE /\ pc'[c] = "sv_snap"
                    /\ run'[c].deleted = Cardinality(DeadIds(AfterGate(c)))
       /\ (op[c] = "removeDeletedNotes" /\ pc[c] \in {"sv_snap", "sv_write"}
             /\ pc'[c] # pc[c]) =>
            /\ db' = db
            /\ pc'[c] = "done" => (res'[c] = Num(run[c].deleted) /\ run[c].deleted > 0)]_vars

\* The purge of a map holding a live and a dead document returned 1, and the
\* entry of the live document is still there.
C7_Witness ==
  \E c \in Calls :
    /\ op[c] = "removeDeletedNotes" /\ pc[c] = "done" /\ res[c] = Num(1)
    /\ files["a.md"].live /\ ~files["b.md"].live
    /\ MapKeys(db) = {"a.md"}
    /\ disk = Record(db)

\* C8: getModifiedNotes() returns exactly the live documents that have no entry or
\* whose modification time is strictly greater than their entry's watermark, each
\* once, and changes neither the map nor the durable record.
C8_FindModifiedExact ==
  [][\A c \in Calls :
       RunsBody(c, "getModifiedNotes") =>
         /\ pc'[c] = "done" /\ res'[c].t = "ids"
         /\ {res'[c].s[i] : i \in 1..Len(res'[c].s)} =
              {d \in DocIds :
                 /\ files[d].live
                 /\ \A e \in Mapping(AfterGate(c)) : e.id = d => files[d].mtime > e.modified}
         /\ Len(res'[c].s) = Cardinality({res'[c].s[i] : i \in 1..Len(res'[c].s)})
         /\ db' = AfterGate(c) /\ disk' = disk]_vars

\* With entries for both documents, one older than its file and one up to date,
\* the scan returned the stale document alone.
C8_Witness ==
  \E c \in Calls :
    /\ op[c] = "getModifiedNotes" /\ pc[c] = "done"
    /\ res[c] = [t |-> "ids", s |-> <<"a.md">>]
    /\ MapHas(db, "a.md") /\ files["a.md"].mtime > MapGet(db, "a.md").e.modified
    /\ MapHas(db, "b.md") /\ files["b.md"].live
    /\ files["b.md"].mtime = MapGet(db, "b.md").e.modified

\* This step is caller c's indexAllNotes() returning normally.
IndexAllReturns(c) ==
  /\ op'[c] = "indexAllNotes" /\ pc'[c] = "done"
  /\ pc[c] \notin Final \/ issued' = issued + 1

\* C9: with no change of the vault and no failure, an indexAllNotes() run right
\* after another leaves the entry set the first one left, and needsReindexing()
\* is false, whatever it samples, when the second run is called.
C9_IdempotentReindex ==
  [][\A c \in Calls :
       (clock' = 1 /\ faults' = 0 /\ lastIndexed.t = "map") =>
         /\ (op[c] = "indexAllNotes" /\ pc[c] = "done" /\ issued' = issued + 1
               /\ op'[c] = "indexAllNotes") =>
              \A s \in Samples(getMarkdownFiles) : ~needsReindexing(db, s)
         /\ (IndexAllReturns(c) /\ op[c] = "indexAllNotes") =>
              Mapping(db') = Mapping(lastIndexed.m)]_vars

\* C10: after an indexAllNotes() that returns normally, the vault unchanged, every
\* id in the map is the id of a live document.
C10_NoOrphans ==
  [][\A c \in Calls :
       (IndexAllReturns(c) /\ clock' = 1) => \A e \in Mapping(db') : files[e.id].live]_vars

\* The live documents whose entry in map m is older than the document.
StaleIds(m) ==
  {d \in DocIds : files[d].live /\ \E e \in Mapping(m) : e.id = d /\ e.modified < files[d].mtime}

\* C11: every stored entry of a live document has modified <= the document's
\* current modification time; an id whose entry is strictly older is among the
\* ids getModifiedNotes() reports, is in the batch the next indexModifiedNotes()
\* processes, and the entries that run builds are set in the map with the
\* modification time the document has then.
C11_Watermark ==
  /\ [](\A e \in Mapping(db) : files[e.id].live => e.modified <= files[e.id].mtime)
  /\ [](\A d \in StaleIds(db) :
          \E i \in 1..Len(ModifiedAmong(getMarkdownFiles, db)) :
            ModifiedAmong(getMarkdownFiles, db)[i] = d)
  /\ [][\A c \in Calls :
         /\ RunsBody(c, "indexModifiedNotes") =>
              \A d \in StaleIds(AfterGate(c)) :
                pc'[c] = "read" /\ \E i \in 1..Len(run'[c].batch) : run'[c].batch[i] = d
         /\ (op[c] = "indexModifiedNotes" /\ pc[c] # "sv_snap" /\ pc'[c] = "sv_snap") =>
              \A i \in 1..Len(run'[c].entries) :
                /\ run'[c].entries[i] \in Mapping(db')
                /\ run'[c].entries[i].modified = files[run'[c].entries[i].id].mtime]_vars

\* A document edited after it was indexed was re-indexed by indexModifiedNotes():
\* its entry carries the new modification time.
C11_Witness ==
  \E c \in Calls :
    /\ op[c] = "indexModifiedNotes" /\ pc[c] = "done" /\ res[c] = Num(1)
    /\ files["a.md"].live /\ files["a.md"].mtime = 2
    /\ VectorEntry("a.md", 2, 2) \in Mapping(db)
    /\ VectorEntry("b.md", 1, 1) \in Mapping(db)
    /\ disk = Record(db)

\* C12: search(q, k) with a non-empty query returns at most k results, exactly
\* the first min(k, n) of the ranking of the n entries that have a non-empty
\* embedding, and no result has an empty embedding.
C12_SearchTopK ==
  [][\A c \in Calls :
       (RunsBody(c, "search") /\ Len(arg'[c].q) > 0) =>
         LET ranking == SortDesc(Scored(AfterGate(c), arg'[c].q))
             n == Cardinality({e \in Mapping(AfterGate(c)) : Len(e.embedding) > 0})
             rs == res'[c].s
         IN /\ pc'[c] = "done" /\ res'[c].t = "results"
            /\ Len(rs) <= arg'[c].k
            /\ rs = SubSeq(ranking, 1, Min(arg'[c].k, n))
            /\ \A i \in 1..Len(rs) : Len(rs[i].note.embedding) > 0]_vars

\* C13 (as stated): every result of search has a strictly greater similarity than
\* the result that follows it.
C13_StrictlySorted ==
  [][\A c \in Calls :
       RunsBody(c, "search") =>
         \A i \in 1..(Len(res'[c].s) - 1) :
           Greater(res'[c].s[i].similarity, res'[c].s[i + 1].similarity)]_vars

\* C13 (amended): the results of search are sorted descending by similarity with
\* ties allowed: no result has a smaller similarity than the result that follows
\* it.
C13_SortedDescending ==
  [][\A c \in Calls :
       RunsBody(c, "search") =>
         \A i \in 1..(Len(res'[c].s) - 1) :
           ~Greater(res'[c].s[i + 1].similarity, res'[c].s[i].similarity)]_vars

\* A search returned three results: the first two have the same similarity, the
\* third a smaller one, and the map holds them in another order.
C13_Witness ==
  \E c \in Calls :
    /\ op[c] = "search" /\ pc[c] = "done" /\ Len(res[c].s) = 3
    /\ ~Greater(res[c].s[1].similarity, res[c].s[2].similarity)
    /\ Greater(res[c].s[2].similarity, res[c].s[3].similarity)
    /\ res[c].s[3].note.id = "a.md"

\* C14: search returns an empty sequence for every k <= 0 and for an empty query
\* vector, whatever the store holds.
C14_EmptySearch ==
  [][\A c \in Calls :
       (RunsBody(c, "search") /\ (arg'[c].k <= 0 \/ Len(arg'[c].q) = 0)) =>
         (pc'[c] = "done" /\ res'[c].s = <<>>)]_vars

\* This step is a cachedRead of caller c's run failing.
ReadFails(c) ==
  /\ pc[c] = "read"
  /\ pc'[c] # pc[c] \/ run'[c] # run[c]
  /\ faults' = faults + 1 \/ ~files[run[c].batch[run[c].j]].live

\* This step of caller c's run of method o sets the entries the run built in the
\* map and starts their flush.
BulkWrites(c, o) ==
  op[c] = o /\ pc[c] # "sv_snap" /\ pc'[c] = "sv_snap" /\ run'[c].stage = "bulk"

SeqSet(s) == {s[i] : i \in 1..Len(s)}

\* C15: in indexAllNotes() a document whose read fails is skipped: its batch
\* goes on with the next document and the run is not aborted; when no embedding
\* request failed, the run sets entries for exactly the documents whose read
\* succeeded (other entries stay as they were) and returns their number.
C15_ReadFailureAbsorbed ==
  [][\A c \in Calls :
       /\ (op[c] = "indexAllNotes" /\ ReadFails(c)) =>
            /\ pc'[c] # "thrown"
            /\ pc'[c] \notin Final =>
                 (run'[c].entries = run[c].entries /\ run'[c].reads = run[c].reads)
            /\ run[c].j < Len(run[c].batch) =>
                 /\ pc'[c] = "read" /\ run'[c].j = run[c].j + 1
                 /\ run'[c].batch = run[c].batch /\ run'[c].fileData = run[c].fileData
            /\ pc'[c] = "done" =>
                 (res'[c] = Num(0) /\ (run[c].failed = 0 => run[c].reads = <<>>))
       /\ (BulkWrites(c, "indexAllNotes") /\ run'[c].failed = 0) =>
            /\ {e.id : e \in SeqSet(run'[c].entries)} = SeqSet(run'[c].reads)
            /\ Len(run'[c].entries) = Len(run'[c].reads)
            /\ SeqSet(run'[c].entries) \subseteq Mapping(db')
            /\ \A e \in Mapping(db') :
                 e.id \notin SeqSet(run'[c].reads) => e \in Mapping(AfterGate(c))
       /\ (op[c] = "indexAllNotes" /\ pc[c] = "sv_write" /\ run[c].stage = "bulk"
             /\ pc'[c] = "done" /\ run[c].failed = 0) =>
            res'[c] = Num(Len(run[c].reads))]_vars

\* Five notes, the read of the third failed: indexAllNotes() returned 4 and the
\* store holds the entries of the other four.
C15_Witness ==
  \E c \in Calls :
    /\ op[c] = "indexAllNotes" /\ pc[c] = "done" /\ res[c] = Num(4)
    /\ ~files["f.md"].live /\ files["c.md"].live
    /\ MapKeys(db) = {"a.md", "b.md", "d.md", "e.md"}
    /\ disk = Record(db)

\* This step is the embedding request of caller c's batch failing.
EmbedFails(c) ==
  /\ pc[c] = "embed"
  /\ pc'[c] # pc[c] \/ run'[c] # run[c]
  /\ faults' = faults + 1

\* C16: in indexAllNotes() a batch whose embedding request fails contributes no
\* entry and does not abort the run: the next batch is processed, the entries of
\* the batches that succeeded are set by the final bulk write, and the run
\* returns their number.
C16_BatchFailureAbsorbed ==
  [][\A c \in Calls :
       /\ (op[c] = "indexAllNotes" /\ EmbedFails(c)) =>
            /\ pc'[c] # "thrown"
            /\ pc'[c] \notin Final =>
                 (run'[c].entries = run[c].entries /\ run'[c].indexed = run[c].indexed)
            /\ run[c].rest # <<>> =>
                 (pc'[c] = "read" /\ run'[c].batch = Slice(run[c].rest, 0, batchSize))
            /\ (run[c].rest = <<>> /\ run[c].entries # <<>>) => BulkWrites(c, "indexAllNotes")
            /\ (run[c].rest = <<>> /\ run[c].entries = <<>>) =>
                 (pc'[c] = "done" /\ res'[c] = Num(0))
       /\ BulkWrites(c, "indexAllNotes") =>
            /\ SeqSet(run'[c].entries) \subseteq Mapping(db')
            /\ run'[c].indexed = Len(run'[c].entries)
       /\ (op[c] = "indexAllNotes" /\ pc[c] = "sv_write" /\ run[c].stage = "bulk"
             /\ pc'[c] = "done") =>
            (res'[c] = Num(Len(run[c].entries)) /\ Len(run[c].entries) > 0)]_vars

\* Six notes: the request for the first batch of five failed, the run went on
\* with the sixth note, stored its entry alone and returned 1.
C16_Witness ==
  \E c \in Calls :
    /\ op[c] = "indexAllNotes" /\ pc[c] = "done" /\ res[c] = Num(1)
    /\ \A d \in DocIds : files[d].live
    /\ MapKeys(db) = {"f.md"}
    /\ disk = Record(db)

\* This step is the flush (saveDatabase) awaited by caller c failing.
FlushFails(c) ==
  /\ pc[c] \in {"sv_snap", "sv_write"}
  /\ pc'[c] # pc[c]
  /\ faults' = faults + 1

\* C17: when the flush fails in the purge or in the bulk write of indexAllNotes()
\* or indexModifiedNotes(), or in addVector, addVectors, removeVector or clear,
\* the invocation ends in that step by throwing the error to its caller: it
\* returns no count and no value.
C17_WriteFailureFatal ==
  [][\A c \in Calls :
       (FlushFails(c) /\ op[c] \in IndexRequests \cup (Mutations \ {"removeDeletedNotes"})) =>
         (pc'[c] = "thrown" /\ res'[c] = NoValue /\ run'[c] = NoRun)]_vars

\* An indexAllNotes() ended by the error of its bulk write: the entry it set is
\* in the map and not in the durable record.
C17_Witness ==
  \E c \in Calls :
    /\ op[c] = "indexAllNotes" /\ pc[c] = "thrown" /\ res[c] = NoValue
    /\ disk = Absent /\ MapHas(db, "a.md")

\* C18: when the flush of addVector, addVectors, removeVector, clear or
\* removeDeletedNotes fails, the map and the durable record are left as they
\* were; and after the next flush that succeeds, loading the record yields the
\* mapping of the in-memory map again.
C18_FailedFlushKeepsMemory ==
  [][\A c \in Calls :
       /\ (FlushFails(c) /\ op[c] \in Mutations) => (db' = db /\ disk' = disk)
       /\ (unflushed /\ op[c] \in Mutations /\ pc[c] = "sv_write" /\ pc'[c] = "done") =>
            Mapping(LoadFresh(disk')) = Mapping(db')]_vars

\* This step completes the load awaited by the gate of caller c's method, and
\* the load found no record, could not read it, could not parse it, or found no
\* vectors array in it.
LoadFindsNothing(c) ==
  \/ pc[c] = "ld_read" /\ disk.kind = "absent" /\ pc'[c] # "ld_read"
  \/ pc[c] = "ld_apply" /\ buf[c].kind # "ok" /\ pc'[c] # "ld_apply"

\* C19: a load that finds the durable record absent, unreadable or corrupt leaves
\* the store empty and loaded, throws nothing to the method that awaited it, and
\* that method then runs on the empty store.
C19_LoadNeverFails ==
  [][\A c \in Calls :
       LoadFindsNothing(c) =>
         /\ loaded'
         /\ AfterGate(c) = <<>>
         /\ pc'[c] # "thrown"
         /\ Body(c, op[c], arg[c], <<>>)]_vars

\* getVector on a store whose record cannot be parsed: the load the call awaited
\* left the store empty and loaded, and the call returned undefined.
C19_Witness ==
  \E c \in Calls :
    /\ op[c] = "getVector" /\ pc[c] = "done" /\ res[c] = [t |-> "undefined"]
    /\ disk = Unparsable /\ loaded /\ db = <<>>
    /\ ctor.pc = "ld_apply"

\* The entries in the durable record, if it holds any.
Persisted == IF disk.kind = "ok" THEN Mapping(disk.vectors) ELSE {}

\* C20: the indexer stores no entry with an empty embedding: the entries that
\* indexAllNotes, indexModifiedNotes and indexSingleNote collect for the store,
\* the entries of the map and the entries of the durable record all have a
\* non-empty embedding, also after a failed embedding request left [] placeholders.
C20_NoEmptyEmbedding ==
  /\ \A c \in Calls : \A e \in SeqSet(run[c].entries) : Len(e.embedding) > 0
  /\ \A e \in Mapping(db) \cup Persisted : Len(e.embedding) > 0

\* indexModifiedNotes() over six new notes: the request for the first five texts
\* failed and left five placeholders, the sixth was embedded, and only its entry
\* is in the map and in the record.
C20_Witness ==
  \E c \in Calls :
    /\ op[c] = "indexModifiedNotes" /\ pc[c] = "done" /\ res[c] = Num(1)
    /\ \A d \in DocIds : files[d].live
    /\ faults = 1
    /\ MapKeys(db) = {"f.md"}
    /\ Persisted = Mapping(db)

\* The entries of the map m whose embedding is the vector q.
Identical(m, q) == {e \in Mapping(m) : e.embedding = q}

\* The similarity 1.0.
IsOne(x) == x.num = x.den

RunStep(c) == pc'[c] # pc[c] \/ run'[c] # run[c]

\* C22: the steps of indexAllNotes() that read and embed the batches neither
\* change the map nor write the record; the step that ends the last batch sets
\* all the accumulated entries in the map at once and is followed by a single
\* flush, after which the run ends; when no entry was accumulated the run ends
\* without setting or writing anything.
C22_SingleBulkUpsert ==
  [][\A c \in Calls :
       (op[c] = "indexAllNotes" /\ RunStep(c)) =>
         /\ pc[c] \in {"read", "embed"} =>
              /\ disk' = disk
              /\ IF BulkWrites(c, "indexAllNotes")
                 THEN /\ run[c].rest = <<>>
                      /\ run'[c].entries # <<>>
                      /\ db' = SetAll(db, run'[c].entries)
                 ELSE db' = db
              /\ pc'[c] = "done" => (run[c].rest = <<>> /\ run[c].entries = <<>>)
         /\ (run[c].stage = "bulk" /\ pc[c] = "sv_snap") => (db' = db /\ disk' = disk)
         /\ (run[c].stage = "bulk" /\ pc[c] = "sv_write") =>
              /\ pc'[c] \in Final
              /\ db' = db
              /\ pc'[c] = "done" => disk' = buf[c]]_vars

\* indexAllNotes() over six notes in two batches returned 6: the six entries are
\* in the map and in the record.
C22_Witness ==
  \E c \in Calls :
    /\ op[c] = "indexAllNotes" /\ pc[c] = "done" /\ res[c] = Num(6)
    /\ Len(db) = 6
    /\ disk = Record(db)

\* Some live document has no entry in the map m, or is newer than its entry.
SomeStale(m) ==
  \E d \in DocIds :
    files[d].live /\ (~MapHas(m, d) \/ files[d].mtime > MapGet(m, d).e.modified)

\* C23: needsReindexing() returns true when the store is empty or holds another
\* number of entries than there are live documents; otherwise, whatever its
\* random sample draws, it returns true only if some live document has no entry
\* or is newer than its entry, and false when every live document has an entry
\* that is not older than the document.
C23_NeedsReindexing ==
  [][\A c \in Calls :
       RunsBody(c, "needsReindexing") =>
         LET m == AfterGate(c)
         IN /\ pc'[c] = "done" /\ res'[c] \in {Bool(TRUE), Bool(FALSE)}
            /\ (Len(m) = 0 \/ Len(getMarkdownFiles) # Len(m)) => res'[c] = Bool(TRUE)
            /\ (Len(m) # 0 /\ Len(getMarkdownFiles) = Len(m)) =>
                 /\ res'[c] = Bool(TRUE) => SomeStale(m)
                 /\ ~SomeStale(m) => res'[c] = Bool(FALSE)]_vars

\* needsReindexing() returned true on a store that holds one entry for each of
\* the two live documents: its sample drew a.md, which is newer than its entry.
C23_Witness ==
  \E c \in Calls :
    /\ op[c] = "needsReindexing" /\ pc[c] = "done" /\ res[c] = Bool(TRUE)
    /\ files["a.md"].live /\ files["b.md"].live
    /\ MapKeys(db) = {"a.md", "b.md"}
    /\ files["a.md"].mtime > MapGet(db, "a.md").e.modified
    /\ files["b.md"].mtime <= MapGet(db, "b.md").e.modified

\* The ids of a set of entries.
Ids(es) == {e.id : e \in es}

\* C24: the steps of indexAllNotes() and indexModifiedNotes() change the map only
\* by deleting the entries of documents that are not live (first step of
\* indexAllNotes) and by setting, in the bulk write, the entries built in this
\* run from documents that were read and embedded; every other entry, that of a
\* document whose read or embedding failed included, stays as it is, and the ids
\* set by indexModifiedNotes() are among the modified documents found at its start.
C24_IndexFrame ==
  [][\A c \in Calls :
       /\ RunsBody(c, "indexAllNotes") =>
            Mapping(db') = {e \in Mapping(AfterGate(c)) : files[e.id].live}
       /\ RunsBody(c, "indexModifiedNotes") =>
            /\ db' = AfterGate(c)
            /\ pc'[c] = "read" =>
                 SeqSet(run'[c].batch) =
                   {d \in DocIds : files[d].live /\
                      (~MapHas(db', d) \/ files[d].mtime > MapGet(db', d).e.modified)}
       /\ \A o \in IndexRequests :
            BulkWrites(c, o) =>
              LET written == SeqSet(run'[c].entries)
              IN /\ Mapping(db') = written \cup {e \in Mapping(db) : e.id \notin Ids(written)}
                 /\ Ids(written) \subseteq SeqSet(run'[c].reads)
                 /\ \A e \in written : e.embedding = Embed(e.id, e.content)
                 /\ o = "indexModifiedNotes" => Ids(written) \subseteq SeqSet(run[c].batch)
       /\ (op[c] \in IndexRequests /\ RunStep(c) /\ ~BulkWrites(c, op[c])
             /\ (pc[c] \in {"read", "embed", "sv_snap", "sv_write"}
                   \/ (pc[c] = "ld_read" /\ pc'[c] = "ld_apply"))) =>
            /\ db' = db
            /\ (op[c] = "indexModifiedNotes" /\ pc'[c] \in {"read", "embed"}) =>
                 run'[c].batch = run[c].batch]_vars

\* indexAllNotes() over a.md and b.md, b.md edited since it was indexed: the
\* read of b.md failed, the bulk write has set the new entry of a.md, and the
\* old entry of b.md is still in the map.
C24_Witness ==
  \E c \in Calls :
    /\ op[c] = "indexAllNotes" /\ pc[c] = "sv_snap" /\ run[c].stage = "bulk"
    /\ run[c].reads = <<"a.md">>
    /\ files["b.md"].live /\ files["b.md"].mtime = 2
    /\ VectorEntry("b.md", 1, 1) \in Mapping(db)
    /\ Ids(SeqSet(run[c].entries)) = {"a.md"}
    /\ SeqSet(run[c].entries) \subseteq Mapping(db)

\* C25: indexSingleNote() never throws; it returns true only when the map holds
\* the entry this call built, and it returns false only when the call has left the
\* map as it was: a call that has set its entry in the map does not return false.
C25_IndexOneResult ==
  [][\A c \in Calls :
       (op[c] = "indexSingleNote" /\ RunStep(c)) =>
         /\ pc'[c] # "thrown"
         /\ (pc'[c] = "done" /\ res'[c] = Bool(TRUE)) =>
              (run[c].entries # <<>> /\ run[c].entries[1] \in Mapping(db'))
         /\ (pc'[c] = "done" /\ res'[c] = Bool(FALSE)) =>
              ~(run[c].stage = "single" /\ pc[c] \in {"sv_snap", "sv_write"}
                  /\ run[c].entries[1] \in Mapping(db'))]_vars

\* The vectors collected so far by generateEmbeddings for the texts of fd: one
\* per text, in order, in groups of batchSize that are either the vectors of
\* their texts or all placeholders.
Positional(fd, embs) ==
  /\ Len(embs) <= Len(fd)
  /\ Len(embs) % batchSize = 0 \/ Len(embs) = Len(fd)
  /\ \A i \in 1..Len(embs) : embs[i] \in {<<>>, Embed(fd[i].id, fd[i].content)}
  /\ \A i, j \in 1..Len(embs) :
       (i - 1) \div batchSize = (j - 1) \div batchSize => (embs[i] = <<>> <=> embs[j] = <<>>)

\* C26: generateEmbeddings collects one vector per text in the order of the
\* texts, an empty placeholder for each text of a failed group of 5, and every
\* entry an index run builds or stores carries the vector of the text of its
\* own document.
C26_PositionalZip ==
  /\ \A c \in Calls : pc[c] = "embed" => Positional(run[c].fileData, run[c].embeddings)
  /\ \A c \in Calls : \A e \in SeqSet(run[c].entries) : e.embedding = Embed(e.id, e.content)
  /\ \A e \in Mapping(db) \cup Persisted : e.embedding = Embed(e.id, e.content)

\* indexAllNotes() over six notes, the read of one of the first five failed: the
\* five others are stored, each with the vector of its own text.
C26_Witness ==
  \E c \in Calls :
    /\ op[c] = "indexAllNotes" /\ pc[c] = "done" /\ res[c] = Num(5)
    /\ \A d \in DocIds : files[d].live
    /\ MapKeys(db) = DocIds \ {"c.md"}
    /\ \A e \in Mapping(db) : e.embedding = Embed(e.id, e.content)
    /\ Persisted = Mapping(db)

\* C27: clear() runs its body on a loaded store, like every public method of
\* the store; and once clear() has returned the map is empty and the durable
\* record holds no entry, as long as no other call is made - also when clear()
\* is the first call on a store whose record holds entries.
C27_ClearBehindGate ==
  \A c \in Calls :
    op[c] = "clear" =>
      /\ pc[c] \in {"sv_snap", "sv_write"} => loaded
      /\ pc[c] = "done" => (db = <<>> /\ disk = Record(<<>>))

\* The ids of map m in its iteration order.
KeyOrder(m) == [i \in 1..Len(m) |-> m[i].id]

\* Result x ranks before result y of a search on map m: x has the greater
\* similarity, or the same similarity and an earlier place in the map.
RanksBefore(m, x, y) ==
  \/ Greater(x.similarity, y.similarity)
  \/ /\ ~Greater(y.similarity, x.similarity)
     /\ MapIndex(m, x.note.id) < MapIndex(m, y.note.id)

\* C28: the results of search(q, k) are entries of the map with their similarity
\* to q, each ranking before the next and before every scored entry that is not
\* returned, where ties go by the place in the map: the results are a function
\* of the map, q and their number.  Setting an entry under an id the map holds
\* keeps the place of the id; a new id takes the last place.
C28_DeterministicRanking ==
  [][\A c \in Calls :
       /\ RunsBody(c, "search") =>
            LET m == AfterGate(c)
                rs == res'[c].s
                scored == {[note |-> e, similarity |-> cosineSimilarity(arg'[c].q, e.embedding)] :
                             e \in {x \in Mapping(m) : Len(x.embedding) > 0}}
            IN /\ \A i \in 1..Len(rs) : rs[i] \in scored
               /\ \A i \in 1..(Len(rs) - 1) : RanksBefore(m, rs[i], rs[i + 1])
               /\ \A y \in scored \ SeqSet(rs) : \A i \in 1..Len(rs) : RanksBefore(m, rs[i], y)
       /\ RunsBody(c, "addVector") =>
            LET m == AfterGate(c)
            IN KeyOrder(db') = IF MapHas(m, arg'[c].id) THEN KeyOrder(m)
                               ELSE Append(KeyOrder(m), arg'[c].id)]_vars

\* a.md and b.md were loaded in this order and a.md was then replaced by an
\* upsert: a search for which both have the same similarity returns a.md first.
C28_Witness ==
  \E c \in Calls :
    /\ op[c] = "search" /\ pc[c] = "done" /\ arg[c].q = <<1, 1>>
    /\ db = <<VectorEntry("a.md", 2, 2), VectorEntry("b.md", 1, 1)>>
    /\ Len(res[c].s) = 2
    /\ res[c].s[1].note = db[1] /\ res[c].s[2].note = db[2]
    /\ ~Greater(res[c].s[1].similarity, res[c].s[2].similarity)
    /\ Greater(res[c].s[1].similarity, Zero)

\* C29: the watermark of every entry is the modification time of the version of
\* the document whose content was read and embedded for it: no entry carries the
\* content of an older version under a newer modification time, so a document
\* edited while a run was in flight is still reported as modified afterwards.
C29_WatermarkOfContentRead ==
  /\ \A e \in Mapping(db) \cup Persisted : e.modified = e.content
  /\ \A c \in Calls : \A e \in SeqSet(run[c].entries) : e.modified = e.content

\* The call of caller c that returns in this step found nothing to index, or
\* read and embedded every document of its batch while no note was created,
\* edited or deleted.
CleanRun(c) ==
  CASE pc[c] = "sv_write" ->
         /\ run[c].since = clock
         /\ run[c].failed = 0
         /\ Len(run[c].reads) = Len(run[c].batch)
    [] pc[c] \in {"read", "embed"} -> FALSE
    [] OTHER -> TRUE

\* C30: when indexModifiedNotes() returns normally from a run in which every
\* read and every embedding succeeded and the vault did not change, no live
\* document is modified with respect to the map; and an indexModifiedNotes()
\* called next on such a store returns 0 and neither changes the map nor writes
\* the record.
C30_SyncConverges ==
  [][\A c \in Calls :
       /\ (op'[c] = "indexModifiedNotes" /\ pc'[c] = "done"
             /\ (pc[c] \notin Final \/ issued' = issued + 1) /\ CleanRun(c)) =>
            ModifiedAmong(getMarkdownFiles, db') = <<>>
       /\ (op[c] = "indexModifiedNotes" /\ pc[c] = "done" /\ issued' = issued + 1
             /\ op'[c] = "indexModifiedNotes" /\ loaded
             /\ ModifiedAmong(getMarkdownFiles, db) = <<>>) =>
            (pc'[c] = "done" /\ res'[c] = Num(0) /\ db' = db /\ disk' = disk)]_vars

\* This step is the write of a saveData call of the given kind landing.
SaveLands(kind) ==
  \E w \in plugin.writes :
    w.kind = kind /\ plugin'.data = w.data /\ plugin'.writes = plugin.writes \ {w}

\* C31: the write of saveChatHistory() leaves the persisted settings as they
\* were, and the write of saveSettings() leaves the persisted chat history as it
\* was, in whatever order the writes land.
C31_SaversDoNotClobber ==
  [][/\ SaveLands("chat") => plugin'.data.settings = plugin.data.settings
     /\ SaveLands("settings") => plugin'.data.chatHistory = plugin.data.chatHistory]_vars

====
